---- MODULE Spec2Model ----
(***************************************************************************)
(* Model of newrelic-guid-fetcher-action (src/main.go): one run of main,   *)
(* from the environment it starts with to the way the process ends.        *)
(* The program position is pc; the environment, the HTTP exchange, the     *)
(* two output streams and the exit status are the rest of the state.       *)
(***************************************************************************)
EXTENDS Integers, Sequences, FiniteSets, TLC

(* ---------- bounds of the model ---------- *)
MaxEntities == 2

(* ---------- values the environment and the server may supply ---------- *)
ApiKeys == {"", "key1", "key2"}
AppIDs == {"", "app1", "app2"}
Regions == {"", "US", "EU", "us", "AP"}
Guids == {"G1", "G2"}
StatusCodes == {200, 201, 401, 500}

(* ---------- program constants ---------- *)
USEndpoint == "https://api.newrelic.com/graphql"
EUEndpoint == "https://api.eu.newrelic.com/graphql"
StatusOK == 200
ExitFailure == 1
ExitSuccess == 0
ExitPanic == 2
Running == -1

MsgNoApiKey == "NewRelic API key not specified."
MsgNoAppID == "NewRelic app ID not specified."
MsgBadRegion == "Invalid NewRelic region specified."
MsgNot200 == "HTTP status code is not 200"
MsgTransport == "transport error"
MsgDecode == "decode error"
MsgPanicIndex == "panic: runtime error: index out of range [0] with length 0"
SetOutputPrefix == "::set-output name=appGUID::"

NoValue == [kind |-> "none"]

VARIABLES
    newrelicApiKey,       \* os.Getenv("INPUT_NEWRELICAPIKEY")
    newrelicRegion,       \* os.Getenv("INPUT_NEWRELICREGION")
    newrelicAppID,        \* os.Getenv("INPUT_NEWRELICAPPID")
    newrelicApiEndpoint,  \* local of main
    pc,                   \* program position
    req,                  \* the request built by http.NewRequest, or NoValue
    resp,                 \* the response client.Do returned, or NoValue
    bodyState,            \* "none", "open" or "closed": resp.Body
    deferred,             \* getGUID's pending deferred calls
    graphqlResponse,      \* the decoded GraphQL value held by main
    err,                  \* the error getGUID returned to main ("" is nil)
    applicationGUID,      \* local of main
    stdout,               \* writes to standard output, in order
    stderr,               \* writes to standard error, in order
    exitCode,             \* Running, or the status the process ended with
    exitSite,             \* who ended the process: "", "main", "getGUID", "runtime"
    httpCalls,            \* number of client.Do calls made
    decoded               \* whether the body was handed to the JSON decoder

vars == <<newrelicApiKey, newrelicRegion, newrelicAppID, newrelicApiEndpoint, pc,
          req, resp, bodyState, deferred, graphqlResponse, err, applicationGUID,
          stdout, stderr, exitCode, exitSite, httpCalls, decoded>>

env == <<newrelicApiKey, newrelicRegion, newrelicAppID>>
http == <<req, resp, bodyState, deferred, httpCalls, decoded>>
locals == <<newrelicApiEndpoint, graphqlResponse, err, applicationGUID>>

(* ---------- library behaviour the program relies on ---------- *)

\* fmt.Println(s): the text and a newline, as one write.
Println(s) == s \o "\n"

\* the zero value GraphQL{}: no entities.
EmptyGraphQL == [Entities |-> <<>>]

\* sequences over S of length at most n
RECURSIVE SeqsUpTo(_, _)
SeqsUpTo(S, n) ==
    IF n = 0 THEN {<<>>}
    ELSE LET shorter == SeqsUpTo(S, n - 1)
         IN shorter \cup {Append(s, x) : s \in {t \in shorter : Len(t) = n - 1}, x \in S}

Entity(g) == [entityType |-> "APPLICATION", guid |-> g, name |-> "app"]

\* Response bodies: text that is not JSON of the expected shape, or a JSON
\* object carrying an entities list (possibly empty).
Bodies ==
    {[kind |-> "malformed"]} \cup
    {[kind |-> "json", entities |-> es] :
        es \in {[i \in 1..Len(gs) |-> Entity(gs[i])] : gs \in SeqsUpTo(Guids, MaxEntities)}}

Init ==
    /\ newrelicApiKey \in ApiKeys
    /\ newrelicRegion \in Regions
    /\ newrelicAppID \in AppIDs
    /\ newrelicApiEndpoint = ""
    /\ pc = "checkApiKey"
    /\ req = NoValue
    /\ resp = NoValue
    /\ bodyState = "none"
    /\ deferred = <<>>
    /\ graphqlResponse = EmptyGraphQL
    /\ err = ""
    /\ applicationGUID = ""
    /\ stdout = <<>>
    /\ stderr = <<>>
    /\ exitCode = Running
    /\ exitSite = ""
    /\ httpCalls = 0
    /\ decoded = FALSE

(* ---------- main: configuration ---------- *)

\* main.go 42-45
CheckApiKey ==
    /\ pc = "checkApiKey"
    /\ IF newrelicApiKey = ""
       THEN /\ stdout' = Append(stdout, Println(MsgNoApiKey))
            /\ exitCode' = ExitFailure
            /\ exitSite' = "main"
            /\ pc' = "exited"
       ELSE /\ pc' = "checkAppID"
            /\ UNCHANGED <<stdout, exitCode, exitSite>>
    /\ UNCHANGED <<env, http, locals, stderr>>

\* variant: the empty app ID is reported but the run goes on
CheckAppID_NoExit ==
    /\ pc = "checkAppID"
    /\ IF newrelicAppID = ""
       THEN stdout' = Append(stdout, Println(MsgNoAppID))
       ELSE UNCHANGED stdout
    /\ pc' = "resolveEndpoint"
    /\ UNCHANGED <<env, http, locals, stderr, exitCode, exitSite>>

\* main.go 48-51
CheckAppID ==
    /\ pc = "checkAppID"
    /\ IF newrelicAppID = ""
       THEN /\ stdout' = Append(stdout, Println(MsgNoAppID))
            /\ exitCode' = ExitFailure
            /\ exitSite' = "main"
            /\ pc' = "exited"
       ELSE /\ pc' = "resolveEndpoint"
            /\ UNCHANGED <<stdout, exitCode, exitSite>>
    /\ UNCHANGED <<env, http, locals, stderr>>

\* variant: the two endpoints exchanged
Endpoint_Swapped(region) ==
    IF region = "US" THEN EUEndpoint
    ELSE IF region = "EU" THEN USEndpoint
    ELSE ""

\* main.go 57-65: the region's endpoint, "" when the region is neither US nor EU
Endpoint(region) ==
    IF region = "US" THEN USEndpoint
    ELSE IF region = "EU" THEN EUEndpoint
    ELSE ""

\* main.go 55-65
ResolveEndpoint ==
    /\ pc = "resolveEndpoint"
    /\ IF newrelicRegion \in {"US", "EU"}
       THEN /\ newrelicApiEndpoint' = Endpoint(newrelicRegion)
            /\ pc' = "newRequest"
            /\ UNCHANGED <<stdout, exitCode, exitSite>>
       ELSE /\ stdout' = Append(stdout, Println(MsgBadRegion))
            /\ exitCode' = ExitFailure
            /\ exitSite' = "main"
            /\ pc' = "exited"
            /\ UNCHANGED newrelicApiEndpoint
    /\ UNCHANGED <<env, http, graphqlResponse, err, applicationGUID, stderr>>

(* ---------- getGUID ---------- *)

\* main.go 92: the request body, the app ID substituted into the fixed query
DataString(appID) ==
    "{\"query\":\"{ actor { entitySearch(query: \\\"domainId=" \o appID
    \o "\\\") { count query results { entities { entityType name guid } } } } }\\n\",\"variables\":null}"

\* http.NewRequest rejects a URL it cannot parse; the two endpoints main can
\* pass both parse, so does the empty string.
NewRequestFails(url) == url \notin {USEndpoint, EUEndpoint, ""}

\* variant: log.Fatal replaced by a report that ends with status 0
LogFatalCode_Zero == ExitSuccess

\* log.Fatal(e): the message on standard error, then os.Exit(1). os.Exit does
\* not run deferred calls.
LogFatalCode == ExitFailure

\* main.go 69 (call), 89-106
NewRequest ==
    /\ pc = "newRequest"
    /\ IF NewRequestFails(newrelicApiEndpoint)
       THEN /\ stderr' = Append(stderr, Println(MsgTransport))
            /\ exitCode' = LogFatalCode
            /\ exitSite' = "getGUID"
            /\ pc' = "exited"
            /\ UNCHANGED req
       ELSE /\ req' = [kind |-> "request",
                       method |-> "POST",
                       url |-> newrelicApiEndpoint,
                       body |-> DataString(newrelicAppID),
                       apiKeyHeader |-> newrelicApiKey,
                       contentType |-> "application/json"]
            /\ pc' = "clientDo"
            /\ UNCHANGED <<stderr, exitCode, exitSite>>
    /\ UNCHANGED <<env, locals, resp, bodyState, deferred, httpCalls, decoded, stdout>>

\* main.go 109-112: the call is made once; it ends in a transport error
\* (log.Fatal) or in a response whose body is open.
ClientDo ==
    /\ pc = "clientDo"
    /\ httpCalls' = httpCalls + 1
    /\ \/ /\ stderr' = Append(stderr, Println(MsgTransport))
          /\ exitCode' = LogFatalCode
          /\ exitSite' = "getGUID"
          /\ pc' = "exited"
          /\ UNCHANGED <<resp, bodyState>>
       \/ /\ \E code \in StatusCodes, b \in Bodies :
                resp' = [kind |-> "response", StatusCode |-> code, Body |-> b]
          /\ bodyState' = "open"
          /\ pc' = "printStatus"
          /\ UNCHANGED <<stderr, exitCode, exitSite>>
    /\ UNCHANGED <<env, locals, req, deferred, decoded, stdout>>

\* variant: the status code is not printed
PrintStatus_Silent ==
    /\ pc = "printStatus"
    /\ deferred' = Append(deferred, "resp.Body.Close")
    /\ pc' = "checkStatus"
    /\ UNCHANGED <<env, locals, req, resp, bodyState, httpCalls, decoded,
                   stdout, stderr, exitCode, exitSite>>

\* main.go 115-118: defer resp.Body.Close(); fmt.Println(resp.StatusCode)
PrintStatus ==
    /\ pc = "printStatus"
    /\ deferred' = Append(deferred, "resp.Body.Close")
    /\ stdout' = Append(stdout, Println(ToString(resp.StatusCode)))
    /\ pc' = "checkStatus"
    /\ UNCHANGED <<env, locals, req, resp, bodyState, httpCalls, decoded,
                   stderr, exitCode, exitSite>>

\* a return from getGUID runs its deferred calls
BodyAfterReturn ==
    IF \E i \in 1..Len(deferred) : deferred[i] = "resp.Body.Close"
    THEN "closed" ELSE bodyState

\* variant: every 2xx status accepted
StatusAccepted_Any2xx(code) == code >= 200 /\ code < 300

\* main.go 121: the status test
StatusAccepted(code) == code = StatusOK

\* main.go 121-123
CheckStatus ==
    /\ pc = "checkStatus"
    /\ IF ~StatusAccepted(resp.StatusCode)
       THEN /\ graphqlResponse' = EmptyGraphQL
            /\ err' = MsgNot200
            /\ bodyState' = BodyAfterReturn
            /\ deferred' = <<>>
            /\ pc' = "mainCheckErr"
       ELSE /\ pc' = "decode"
            /\ UNCHANGED <<graphqlResponse, err, bodyState, deferred>>
    /\ UNCHANGED <<env, newrelicApiEndpoint, applicationGUID, req, resp, httpCalls,
                   decoded, stdout, stderr, exitCode, exitSite>>

\* json.NewDecoder(resp.Body).Decode: the entities of the body, in its order
DecodeBody(b) == [Entities |-> b.entities]

\* main.go 126-133
Decode ==
    /\ pc = "decode"
    /\ decoded' = TRUE
    /\ IF resp.Body.kind = "malformed"
       THEN /\ stderr' = Append(stderr, Println(MsgDecode))
            /\ exitCode' = LogFatalCode
            /\ exitSite' = "getGUID"
            /\ pc' = "exited"
            /\ UNCHANGED <<graphqlResponse, err, bodyState, deferred>>
       ELSE /\ graphqlResponse' = DecodeBody(resp.Body)
            /\ err' = ""
            /\ bodyState' = BodyAfterReturn
            /\ deferred' = <<>>
            /\ pc' = "mainCheckErr"
            /\ UNCHANGED <<stderr, exitCode, exitSite>>
    /\ UNCHANGED <<env, newrelicApiEndpoint, applicationGUID, req, resp, httpCalls, stdout>>

(* ---------- main: after getGUID ---------- *)

\* variant: a failed lookup is tried once more before it is reported
MainCheckErr_RetryOnce ==
    /\ pc = "mainCheckErr"
    /\ IF err # "" /\ httpCalls < 2
       THEN /\ pc' = "newRequest"
            /\ UNCHANGED <<stdout, exitCode, exitSite>>
       ELSE IF err # ""
       THEN /\ stdout' = Append(stdout, Println(err))
            /\ exitCode' = ExitFailure
            /\ exitSite' = "main"
            /\ pc' = "exited"
       ELSE /\ pc' = "getApplicationGUID"
            /\ UNCHANGED <<stdout, exitCode, exitSite>>
    /\ UNCHANGED <<env, http, locals, stderr>>

\* main.go 70-73
MainCheckErr ==
    /\ pc = "mainCheckErr"
    /\ IF err # ""
       THEN /\ stdout' = Append(stdout, Println(err))
            /\ exitCode' = ExitFailure
            /\ exitSite' = "main"
            /\ pc' = "exited"
       ELSE /\ pc' = "getApplicationGUID"
            /\ UNCHANGED <<stdout, exitCode, exitSite>>
    /\ UNCHANGED <<env, http, locals, stderr>>

\* variant: the last entity instead of the first
getApplicationGUID_Last(g) == g.Entities[Len(g.Entities)].guid

\* main.go 141: Entities[0].GUID (Go indexes from 0, the model from 1)
getApplicationGUID(g) == g.Entities[1].guid

\* Go's bounds check on Entities[0]
IndexPanics(g) == Len(g.Entities) = 0

\* variant: the empty list is checked and reported by main
ExtractGUID_Guarded ==
    /\ pc = "getApplicationGUID"
    /\ IF Len(graphqlResponse.Entities) = 0
       THEN /\ stdout' = Append(stdout, Println(MsgNot200))
            /\ exitCode' = ExitFailure
            /\ exitSite' = "main"
            /\ pc' = "exited"
            /\ UNCHANGED applicationGUID
       ELSE /\ applicationGUID' = graphqlResponse.Entities[1].guid
            /\ pc' = "printOutput"
            /\ UNCHANGED <<stdout, exitCode, exitSite>>
    /\ UNCHANGED <<env, http, newrelicApiEndpoint, graphqlResponse, err, stderr>>

\* main.go 77, 139-142: an index out of range is a run-time panic nobody
\* recovers: the runtime writes the panic to standard error and exits 2.
ExtractGUID ==
    /\ pc = "getApplicationGUID"
    /\ IF IndexPanics(graphqlResponse)
       THEN /\ stderr' = Append(stderr, Println(MsgPanicIndex))
            /\ exitCode' = ExitPanic
            /\ exitSite' = "runtime"
            /\ pc' = "exited"
            /\ UNCHANGED applicationGUID
       ELSE /\ applicationGUID' = getApplicationGUID(graphqlResponse)
            /\ pc' = "printOutput"
            /\ UNCHANGED <<stderr, exitCode, exitSite>>
    /\ UNCHANGED <<env, http, newrelicApiEndpoint, graphqlResponse, err, stdout>>

\* main.go 80: fmt.Printf of the output line (no newline)
SetOutputLine(guid) == SetOutputPrefix \o guid

\* main.go 80-81: the line is written and main returns, which ends the
\* process with status 0.
PrintOutput ==
    /\ pc = "printOutput"
    /\ stdout' = Append(stdout, SetOutputLine(applicationGUID))
    /\ exitCode' = ExitSuccess
    /\ exitSite' = "main"
    /\ pc' = "exited"
    /\ UNCHANGED <<env, http, locals, stderr>>

Next ==
    \/ CheckApiKey
    \/ CheckAppID
    \/ ResolveEndpoint
    \/ NewRequest
    \/ ClientDo
    \/ PrintStatus
    \/ CheckStatus
    \/ Decode
    \/ MainCheckErr
    \/ ExtractGUID
    \/ PrintOutput

Spec == Init /\ [][Next]_vars

\* The program is sequential: whenever a step is possible it is taken.
FairSpec == Spec /\ WF_vars(Next)

(* ======================================================================= *)
(* Properties                                                              *)
(* ======================================================================= *)

Terminated == pc = "exited"

ConfigValid ==
    /\ newrelicApiKey # ""
    /\ newrelicAppID # ""
    /\ newrelicRegion \in {"US", "EU"}

HasResponse == resp.kind = "response"

\* the writes on standard output that are a set-output line
SetOutputWrites ==
    {i \in 1..Len(stdout) : \E g \in Guids \cup {""} : stdout[i] = "::set-output name=appGUID::" \o g}

\* the messages the program itself reports on an error
OwnDiagnostics ==
    {Println(MsgNoApiKey), Println(MsgNoAppID), Println(MsgBadRegion),
     Println(MsgNot200), Println(MsgTransport), Println(MsgDecode)}

C2_FirstGuidWritten ==
    (/\ Terminated
     /\ HasResponse
     /\ resp.StatusCode = 200
     /\ resp.Body.kind = "json"
     /\ Len(resp.Body.entities) >= 1)
    => /\ SetOutputWrites = {Len(stdout)}
       /\ stdout[Len(stdout)] = "::set-output name=appGUID::" \o resp.Body.entities[1].guid

C2_Witness ==
    /\ Terminated
    /\ HasResponse
    /\ resp.StatusCode = 200
    /\ resp.Body.kind = "json"
    /\ Len(resp.Body.entities) = 2
    /\ resp.Body.entities[1].guid = "G1"
    /\ resp.Body.entities[2].guid = "G2"
    /\ stdout[Len(stdout)] = "::set-output name=appGUID::G1"

\* C3: after a response whose status is not 200 the body is never decoded, no
\* set-output line is written, getGUID hands the error to main, and it is main
\* that reports it and ends the process with a non-zero status.
C3_Non200ReturnedToMain ==
    (HasResponse /\ resp.StatusCode # 200)
    => /\ ~decoded
       /\ SetOutputWrites = {}
       /\ pc \in {"printStatus", "checkStatus", "mainCheckErr", "exited"}
       /\ pc = "mainCheckErr" => err = "HTTP status code is not 200"
       /\ Terminated =>
             /\ exitSite = "main"
             /\ exitCode \notin {Running, 0}
             /\ stdout[Len(stdout)] = "HTTP status code is not 200\n"

C3_Witness ==
    /\ Terminated
    /\ HasResponse
    /\ resp.StatusCode = 401
    /\ exitSite = "main"
    /\ exitCode = 1
    /\ ~decoded

\* C4: with the region unset and the API key and the app ID set, the run
\* resolves the US endpoint and reaches the HTTP request instead of ending
\* with a configuration error.
C4_RegionDefaultsToUS ==
    (/\ Terminated
     /\ newrelicRegion = ""
     /\ newrelicApiKey # ""
     /\ newrelicAppID # "")
    => /\ req.kind = "request"
       /\ req.url = "https://api.newrelic.com/graphql"
       /\ httpCalls = 1

\* the fatal conditions other than the index fault end with status 1
ReportedFatal ==
    \/ ~ConfigValid
    \/ (HasResponse /\ resp.StatusCode # 200)
    \/ (httpCalls = 1 /\ ~HasResponse)
    \/ (decoded /\ resp.Body.kind = "malformed")

IndexFault ==
    /\ decoded
    /\ resp.Body.kind = "json"
    /\ Len(resp.Body.entities) = 0

\* C5 as stated: the exit status is 0 exactly on success and 1 in every fatal
\* condition, the out-of-bounds extraction included; never anything else.
C5_ExitZeroOrOne ==
    Terminated =>
        /\ exitCode \in {0, 1}
        /\ exitCode = 0 <=> SetOutputWrites # {}
        /\ (ReportedFatal \/ IndexFault) => exitCode = 1

\* C5 amended: the exit status is 0 exactly on success, 1 in every fatal
\* condition the program reports (configuration, non-200, transport, decode)
\* and 2 when the extraction from an empty entities list panics.
C5_ExitCodes ==
    Terminated =>
        /\ exitCode \in {0, 1, 2}
        /\ exitCode = 0 <=> SetOutputWrites # {}
        /\ ReportedFatal => exitCode = 1
        /\ IndexFault => exitCode = 2
        /\ exitCode # 0 => (ReportedFatal \/ IndexFault)

C5_Witness ==
    /\ Terminated
    /\ IndexFault
    /\ exitSite = "runtime"
    /\ exitCode = 2

\* C6 as stated: on a successful run standard output holds the set-output
\* line and nothing else.
C6_OnlySetOutput ==
    (Terminated /\ exitCode = 0)
    => stdout = <<"::set-output name=appGUID::" \o applicationGUID>>

\* C6 amended: on a successful run standard output holds exactly two writes,
\* the status line "200" printed by getGUID and then the set-output line.
C6_StatusThenSetOutput ==
    (Terminated /\ exitCode = 0)
    => stdout = <<"200\n", "::set-output name=appGUID::" \o resp.Body.entities[1].guid>>

C6_Witness ==
    /\ Terminated
    /\ exitCode = 0
    /\ stdout = <<"200\n", "::set-output name=appGUID::G2">>

\* C7: once a response was returned, its body is closed by the time the
\* process has ended, whatever the path out of getGUID.
C7_BodyClosedAtExit ==
    (Terminated /\ HasResponse) => bodyState = "closed"

\* C8: at most one HTTP call is ever made, a run with a valid configuration
\* makes that one call, and once the call has been made the process ends.
C8_ExactlyOneRequest ==
    /\ [](httpCalls <= 1)
    /\ []((Terminated /\ ConfigValid) => httpCalls = 1)
    /\ (ConfigValid ~> (httpCalls = 1))
    /\ ((httpCalls = 1) ~> Terminated)

C8_Witness ==
    /\ Terminated
    /\ HasResponse
    /\ resp.StatusCode = 500
    /\ httpCalls = 1

\* C9: the request goes to the US endpoint when the region is US and to the
\* EU endpoint when it is EU, whatever the API key and the app ID, and the
\* endpoint handed to getGUID is never empty.
C9_EndpointByRegion ==
    /\ pc \in {"newRequest", "clientDo", "printStatus", "checkStatus", "decode"}
          => newrelicApiEndpoint # ""
    /\ req.kind = "request" =>
          /\ req.url = newrelicApiEndpoint
          /\ req.url # ""
          /\ newrelicRegion = "US" => req.url = "https://api.newrelic.com/graphql"
          /\ newrelicRegion = "EU" => req.url = "https://api.eu.newrelic.com/graphql"
          /\ newrelicRegion \in {"US", "EU"}

C9_Witness ==
    /\ req.kind = "request"
    /\ httpCalls = 1
    /\ newrelicRegion = "EU"
    /\ newrelicApiKey = "key2"
    /\ newrelicAppID = "app1"
    /\ req.url = "https://api.eu.newrelic.com/graphql"

\* C10: after a 200 response that decodes to an empty entities list the run
\* ends in the runtime's index panic: the process is ended by the runtime with
\* a non-zero status, none of the program's own diagnostics is written, and no
\* set-output line is written.
C10_EmptyListPanics ==
    (/\ HasResponse
     /\ resp.StatusCode = 200
     /\ resp.Body.kind = "json"
     /\ Len(resp.Body.entities) = 0)
    => /\ SetOutputWrites = {}
       /\ \A i \in 1..Len(stdout) : stdout[i] \notin OwnDiagnostics
       /\ \A i \in 1..Len(stderr) : stderr[i] \notin OwnDiagnostics
       /\ Terminated =>
             /\ exitSite = "runtime"
             /\ exitCode \notin {Running, 0}
             /\ stdout = <<"200\n">>
             /\ stderr = <<Println(MsgPanicIndex)>>

C10_Witness ==
    /\ Terminated
    /\ HasResponse
    /\ resp.StatusCode = 200
    /\ resp.Body.kind = "json"
    /\ Len(resp.Body.entities) = 0
    /\ exitSite = "runtime"
====
